---------------------------- MODULE Spec2Model ----------------------------
(***************************************************************************)
(* Model of comm-common: the session store (src/src/session.rs) and the    *)
(* configuration bundle (src/src/config.rs).                               *)
(*                                                                         *)
(* The session table is a set of rows.  Every public operation of          *)
(* session.rs is one SQL statement, executed atomically by the backing     *)
(* store; an action of the model is one such call: the statement, and the  *)
(* result the caller gets back.  The most recent call is kept in last, so  *)
(* that what a caller observed can be stated.                              *)
(***************************************************************************)
EXTENDS Integers, FiniteSets, Sequences, TLC

VARIABLES
    store,   \* the rows of table "session"
    now,     \* the store's clock, now()
    last,    \* the most recent call and what it returned
    raw,     \* the RawConfig read from the configuration document
    built,   \* what Config::try_from(raw) produced
    url      \* what Config::external_url() returned

vars == <<store, now, last, raw, built, url>>
sessionVars == <<store, now, last>>
configVars == <<raw, built, url>>

---------------------------------------------------------------------------
(* Bounds and value sets *)

\* The clock runs from 0 to MaxTime (one unit is half an hour).
MaxTime == 3

\* INTERVAL '1 hour', in clock units.
Hour == 2

\* Option::None / SQL NULL
None == "NULL"

Ids == {"s1", "s2"}
Rooms == {"r1", "r2"}
AttrIds == {"a1", "a2"}
AuthResults == {"x", "y"}
RedirectUrls == {"https://redirect"}
Names == {"name"}
Instances == {"instance"}
Purposes == {"purpose"}

\* The closed enumeration SessionDomain
SessionDomain == {"User", "Guest"}

ParseError == "ParseError"

\* SessionDomain::to_string
DomainToString(d) ==
    CASE d = "User" -> "user"
      [] d = "Guest" -> "guest"

\* SessionDomain::from_str: fails on every string outside the enumeration
DomainFromStr(str) ==
    CASE str = "user" -> "User"
      [] str = "guest" -> "Guest"
      [] OTHER -> ParseError

\* The guest tokens that are admitted: every id in every room, in both
\* domains overall
DomainOf(id, room_id) ==
    IF (id = "s1") <=> (room_id = "r1") THEN "User" ELSE "Guest"

GuestToken ==
    {[id |-> i, room_id |-> r, domain |-> DomainOf(i, r),
      redirect_url |-> u, name |-> n, instance |-> x] :
        i \in Ids, r \in Rooms, u \in RedirectUrls, n \in Names,
        x \in Instances}

\* struct Session
Session ==
    [guest_token : GuestToken, auth_result : {None, "x"},
     attr_id : AttrIds, purpose : Purposes]

\* Session::new
New(guest_token, attr_id, purpose) ==
    [attr_id |-> attr_id, purpose |-> purpose, guest_token |-> guest_token,
     auth_result |-> None]

\* Results a caller can get
Ok == "Ok"
NotFound == "NotFound"
\* Error::BadRequest("A session with that ID already exists"): the Conflict
BadRequest == "BadRequest"
Conflict == BadRequest

---------------------------------------------------------------------------
(* The statements of session.rs, as functions of the table *)

\* The row INSERTed for session s at time t
ToRow(s, t) ==
    [session_id |-> s.guest_token.id,
     room_id |-> s.guest_token.room_id,
     domain |-> DomainToString(s.guest_token.domain),
     redirect_url |-> s.guest_token.redirect_url,
     purpose |-> s.purpose,
     name |-> s.guest_token.name,
     instance |-> s.guest_token.instance,
     attr_id |-> s.attr_id,
     auth_result |-> s.auth_result,
     last_activity |-> t]

\* session_id is the table's primary key: an INSERT of an id that is present
\* is refused with UNIQUE_VIOLATION
UniqueViolation(st, id) == \E r \in st : r.session_id = id

\* Mutant: the INSERT as an upsert (ON CONFLICT ... DO UPDATE)
InsertStmtUpsert(st, s, t) ==
    [store |-> {r \in st : r.session_id # s.guest_token.id} \cup {ToRow(s, t)},
     err |-> None]

\* Mutant: the INSERT never meets the key
InsertStmtUnchecked(st, s, t) ==
    [store |-> st \cup {ToRow(s, t)}, err |-> None]

\* The INSERT of persist: the table afterwards and the statement's outcome
InsertStmt(st, s, t) ==
    IF UniqueViolation(st, s.guest_token.id)
    THEN [store |-> st, err |-> "UNIQUE_VIOLATION"]
    ELSE [store |-> st \cup {ToRow(s, t)}, err |-> None]

\* Mutant: the statement's error is dropped and Ok(()) returned
PersistResultIgnoresError(err) == Ok

\* Mutant: every error of the statement becomes the Conflict
PersistResultAllConflict(err) == IF err = None THEN Ok ELSE BadRequest

\* persist's map_err
PersistResult(err) ==
    IF err = None THEN Ok
    ELSE IF err = "UNIQUE_VIOLATION" THEN BadRequest
    ELSE "StorageError"

\* Mutant: WHERE attr_id = $2, without the guard on auth_result
RegisterWhereAnyResult(st, attr_id) == {r \in st : r.attr_id = attr_id}

\* Mutant: WHERE auth_result IS NULL, without the condition on attr_id
RegisterWhereAnyAttr(st, attr_id) == {r \in st : r.auth_result = None}

\* WHERE auth_result IS NULL AND attr_id = $2
RegisterWhere(st, attr_id) ==
    {r \in st : r.auth_result = None /\ r.attr_id = attr_id}

\* The UPDATE of register_auth_result: the table afterwards, the number of
\* rows affected (which execute returns) and the sessions they belong to
RegisterStmt(st, attr_id, auth_result, t) ==
    LET rows == RegisterWhere(st, attr_id) IN
    [store |-> (st \ rows) \cup
               {[r EXCEPT !.auth_result = auth_result, !.last_activity = t] :
                   r \in rows},
     n |-> Cardinality(rows),
     ids |-> {r.session_id : r \in rows}]

\* Mutant: match n { 0 => Ok(()), _ => Err(Error::NotFound) }
RegisterResultZero(n) == IF n = 0 THEN Ok ELSE NotFound

\* match n { 1 => Ok(()), _ => Err(Error::NotFound) }
RegisterResult(n) == IF n = 1 THEN Ok ELSE NotFound

\* Mutant: WHERE room_id = $1 AND auth_result IS NULL
FindWherePending(st, room_id) ==
    {r \in st : r.room_id = room_id /\ r.auth_result = None}

\* Mutant: the UPDATE without its WHERE
FindWhereAllRooms(st, room_id) == st

\* WHERE room_id = $1
FindWhere(st, room_id) == {r \in st : r.room_id = room_id}

\* Mutant: SET last_activity to the start of the clock instead of now()
FindStmtEpoch(st, room_id, t) ==
    LET rows == FindWhere(st, room_id)
        upd == {[r EXCEPT !.last_activity = 0] : r \in rows}
    IN [store |-> (st \ rows) \cup upd, rows |-> upd]

\* The UPDATE ... RETURNING of find_by_room_id: the table afterwards and the
\* rows returned
FindStmt(st, room_id, t) ==
    LET rows == FindWhere(st, room_id)
        upd == {[r EXCEPT !.last_activity = t] : r \in rows}
    IN [store |-> (st \ rows) \cup upd, rows |-> upd]

\* Mutant: the columns name and instance read the wrong way round
DecodeSwapped(r) ==
    LET domain == DomainFromStr(r.domain) IN
    IF domain = ParseError THEN [ok |-> FALSE]
    ELSE [ok |-> TRUE,
          session |->
             [purpose |-> r.purpose,
              guest_token |-> [id |-> r.session_id,
                               room_id |-> r.room_id,
                               domain |-> domain,
                               redirect_url |-> r.redirect_url,
                               name |-> r.instance,
                               instance |-> r.name],
              attr_id |-> r.attr_id,
              auth_result |-> r.auth_result]]

\* The closure mapping a returned row to a Session: Result<Session, Error>
Decode(r) ==
    LET domain == DomainFromStr(r.domain) IN
    IF domain = ParseError THEN [ok |-> FALSE]
    ELSE [ok |-> TRUE,
          session |->
             [purpose |-> r.purpose,
              guest_token |-> [id |-> r.session_id,
                               room_id |-> r.room_id,
                               domain |-> domain,
                               redirect_url |-> r.redirect_url,
                               name |-> r.name,
                               instance |-> r.instance],
              attr_id |-> r.attr_id,
              auth_result |-> r.auth_result]]

\* Mutant: rows that do not decode are skipped (filter_map) instead of
\* failing the call
FindResultSkipsBad(rows) ==
    IF rows = {} THEN [res |-> NotFound, ret |-> {}]
    ELSE [res |-> Ok,
          ret |-> {Decode(r).session : r \in {x \in rows : Decode(x).ok}}]

\* What find_by_room_id returns for the rows the statement returned
FindResult(rows) ==
    IF rows = {} THEN [res |-> NotFound, ret |-> {}]
    ELSE IF \E r \in rows : ~Decode(r).ok
         THEN [res |-> ParseError, ret |-> {}]
         ELSE [res |-> Ok, ret |-> {Decode(r).session : r \in rows}]

\* Mutant: WHERE last_activity <= now() - INTERVAL '1 hour'
CleanWhereOrMore(st, t) == {r \in st : r.last_activity <= t - Hour}

\* Mutant: the comparison the wrong way round
CleanWhereInverted(st, t) == {r \in st : r.last_activity > t - Hour}

\* Mutant: AND auth_result IS NOT NULL added to the WHERE
CleanWhereResolved(st, t) ==
    {r \in st : r.last_activity < t - Hour /\ r.auth_result # None}

\* WHERE last_activity < now() - INTERVAL '1 hour'
CleanWhere(st, t) == {r \in st : r.last_activity < t - Hour}

\* The DELETE of clean_db: the table afterwards, the number of rows
\* affected and the rows deleted
CleanStmt(st, t) ==
    LET rows == CleanWhere(st, t) IN
    [store |-> st \ rows, n |-> Cardinality(rows), removed |-> rows]

---------------------------------------------------------------------------
(* config.rs: the configuration bundle *)

Urls == {"https://internal", "https://external"}

\* A key declaration (EncryptionKeyConfig, SignKeyConfig): what matters of it
\* here is whether it resolves
KeyEntries == {"valid", "malformed"}

\* A shared secret: HS256 refuses a secret shorter than its hash output
Secrets == {"long-secret", "short"}

RawAuthDuringCommConfig ==
    [core_url : {"https://core"},
     widget_url : {"https://widget"},
     display_name : {"display"},
     widget_signing_privkey : KeyEntries,
     start_auth_signing_privkey : KeyEntries,
     start_auth_key_id : {"kid"},
     guest_signature_secret : Secrets,
     host_signature_secret : Secrets]

RawConfig ==
    [internal_url : Urls,
     external_url : Urls \cup {None},
     decryption_privkey : KeyEntries,
     signature_pubkey : KeyEntries,
     \* cfg(feature = "auth_during_comm"): the extended mode is compiled in
     feature : BOOLEAN,
     auth_during_comm_config : RawAuthDuringCommConfig]

\* The valid configuration of the tests
TEST_CONFIG_VALID ==
    [internal_url |-> "https://internal",
     external_url |-> "https://external",
     decryption_privkey |-> "valid",
     signature_pubkey |-> "valid",
     feature |-> TRUE,
     auth_during_comm_config |->
        [core_url |-> "https://core",
         widget_url |-> "https://widget",
         display_name |-> "display",
         widget_signing_privkey |-> "valid",
         start_auth_signing_privkey |-> "valid",
         start_auth_key_id |-> "kid",
         guest_signature_secret |-> "long-secret",
         host_signature_secret |-> "long-secret"]]

\* Box::<dyn ...>::try_from(key entry): the capability, or an error
ResolveKey(entry, capability) ==
    IF entry = "valid"
    THEN [ok |-> TRUE, value |-> <<capability, entry>>]
    ELSE [ok |-> FALSE]

\* HmacJwsAlgorithm::Hs256.verifier_from_bytes(secret): the verifier, or an
\* error
VerifierFromBytes(secret) ==
    IF secret = "long-secret"
    THEN [ok |-> TRUE, value |-> <<"Verify", secret>>]
    ELSE [ok |-> FALSE]

Err == "Err"
Panic == "Panic"
\* No Config comes out of a failed construction
Failed(res) == [res |-> res]

\* TryFrom<RawAuthDuringCommConfig> for AuthDuringCommConfig.  The two
\* verifiers are unwrapped (a failure panics); the two signers use `?`.
AuthDuringCommTryFrom(rc) ==
    LET guest_validator == VerifierFromBytes(rc.guest_signature_secret)
        host_validator == VerifierFromBytes(rc.host_signature_secret)
        widget_signer == ResolveKey(rc.widget_signing_privkey, "Sign")
        start_auth_signer == ResolveKey(rc.start_auth_signing_privkey, "Sign")
    IN  IF ~guest_validator.ok THEN Failed(Panic)
        ELSE IF ~host_validator.ok THEN Failed(Panic)
        ELSE IF ~widget_signer.ok THEN Failed(Err)
        ELSE IF ~start_auth_signer.ok THEN Failed(Err)
        ELSE [res |-> Ok,
              config |-> [core_url |-> rc.core_url,
                          widget_url |-> rc.widget_url,
                          display_name |-> rc.display_name,
                          widget_signer |-> widget_signer.value,
                          start_auth_signer |-> start_auth_signer.value,
                          start_auth_key_id |-> rc.start_auth_key_id,
                          guest_validator |-> guest_validator.value,
                          host_validator |-> host_validator.value]]

\* TryFrom<RawConfig> for Config
ConfigTryFrom(rc) ==
    LET adc == IF rc.feature
               THEN AuthDuringCommTryFrom(rc.auth_during_comm_config)
               ELSE [res |-> Ok, config |-> None]
        decrypter == ResolveKey(rc.decryption_privkey, "Decrypt")
        validator == ResolveKey(rc.signature_pubkey, "Verify")
    IN  IF adc.res # Ok THEN Failed(adc.res)
        ELSE IF ~decrypter.ok THEN Failed(Err)
        ELSE IF ~validator.ok THEN Failed(Err)
        ELSE [res |-> Ok,
              config |-> [auth_during_comm_config |-> adc.config,
                          internal_url |-> rc.internal_url,
                          external_url |-> rc.external_url,
                          decrypter |-> decrypter.value,
                          validator |-> validator.value]]

\* Mutant: the arms of the match the wrong way round
external_url_swapped(config) ==
    IF config.external_url # None THEN config.internal_url
    ELSE config.external_url

\* Config::external_url
external_url(config) ==
    IF config.external_url # None THEN config.external_url
    ELSE config.internal_url

NoConfig == [res |-> "none"]

\* The configuration document is turned into a Config, once
TryFromRawConfig ==
    /\ built = NoConfig
    /\ built' = ConfigTryFrom(raw)
    /\ UNCHANGED <<raw, url, sessionVars>>

\* A request handler asks the Config for its external URL
ExternalUrl ==
    /\ built.res = Ok
    /\ url' = external_url(built.config)
    /\ UNCHANGED <<raw, built, sessionVars>>

---------------------------------------------------------------------------
(* The calls *)

NoCall == [op |-> "none"]

Record(call) == last' = call

\* Session::persist
Persist(s) ==
    LET out == InsertStmt(store, s, now) IN
    /\ store' = out.store
    /\ Record([op |-> "persist", session |-> s, res |-> PersistResult(out.err)])
    /\ UNCHANGED <<now, configVars>>

\* Session::register_auth_result
RegisterAuthResult(attr_id, auth_result) ==
    LET out == RegisterStmt(store, attr_id, auth_result, now) IN
    /\ store' = out.store
    /\ Record([op |-> "register_auth_result", attr_id |-> attr_id,
               auth_result |-> auth_result, n |-> out.n, ids |-> out.ids,
               res |-> RegisterResult(out.n)])
    /\ UNCHANGED <<now, configVars>>

\* Session::find_by_room_id
FindByRoomId(room_id) ==
    LET out == FindStmt(store, room_id, now)
        got == FindResult(out.rows)
    IN /\ store' = out.store
       /\ Record([op |-> "find_by_room_id", room_id |-> room_id,
                  res |-> got.res, ret |-> got.ret])
       /\ UNCHANGED <<now, configVars>>

\* clean_db
CleanDb ==
    /\ store' = CleanStmt(store, now).store
    /\ Record([op |-> "clean_db", n |-> CleanStmt(store, now).n,
               removed |-> CleanStmt(store, now).removed, res |-> Ok])
    /\ UNCHANGED <<now, configVars>>

\* Time passes at the store
Tick ==
    /\ now < MaxTime
    /\ now' = now + 1
    /\ Record([op |-> "tick"])
    /\ UNCHANGED <<store, configVars>>

Init ==
    /\ store = {}
    /\ now = 0
    /\ last = NoCall
    /\ raw = TEST_CONFIG_VALID
    /\ built = NoConfig
    /\ url = None

Next ==
    \/ \E s \in Session : Persist(s)
    \/ \E a \in AttrIds, r \in AuthResults : RegisterAuthResult(a, r)
    \/ \E room \in Rooms : FindByRoomId(room)
    \/ CleanDb
    \/ Tick

Spec == Init /\ [][Next]_vars

\* A stored domain string that names no SessionDomain
CorruptDomain == "corrupted"

\* The domain column of a stored row is changed to such a string by something
\* other than this program (another writer of the table, a changed
\* enumeration)
Corrupt(id) ==
    /\ \E r \in store :
          /\ r.session_id = id
          /\ r.domain # CorruptDomain
          /\ store' = (store \ {r}) \cup {[r EXCEPT !.domain = CorruptDomain]}
    /\ Record([op |-> "corrupt"])
    /\ UNCHANGED <<now, configVars>>

\* The session store within one unit of the clock, with rows whose domain
\* gets corrupted
NextIntegrity ==
    \/ \E s \in Session : Persist(s)
    \/ \E a \in AttrIds, r \in AuthResults : RegisterAuthResult(a, r)
    \/ \E room \in Rooms : FindByRoomId(room)
    \/ CleanDb
    \/ \E id \in Ids : Corrupt(id)

SpecIntegrity == Init /\ [][NextIntegrity]_vars

\* Error::from(e) of a postgres error: the storage error
StorageError == "StorageError"

\* `?` on the result of db.run(...): the store's error goes to the caller
Propagate(e) == StorageError

\* Failures of the backing store other than the unique-constraint violation
StoreErrors == {"CONNECTION_FAILURE", "CHECK_VIOLATION"}

\* Session::persist, the INSERT failing with e: nothing is written
PersistFails(s, e) ==
    /\ Record([op |-> "persist", session |-> s, dberr |-> e,
               res |-> PersistResult(e)])
    /\ UNCHANGED <<store, now, configVars>>

\* Session::register_auth_result, the UPDATE failing with e
RegisterAuthResultFails(attr_id, auth_result, e) ==
    /\ Record([op |-> "register_auth_result", attr_id |-> attr_id,
               auth_result |-> auth_result, n |-> 0, ids |-> {},
               dberr |-> e, res |-> Propagate(e)])
    /\ UNCHANGED <<store, now, configVars>>

\* Session::find_by_room_id, the UPDATE ... RETURNING failing with e
FindByRoomIdFails(room_id, e) ==
    /\ Record([op |-> "find_by_room_id", room_id |-> room_id, dberr |-> e,
               res |-> Propagate(e), ret |-> {}])
    /\ UNCHANGED <<store, now, configVars>>

\* clean_db, the DELETE failing with e
CleanDbFails(e) ==
    /\ Record([op |-> "clean_db", n |-> 0, removed |-> {}, dberr |-> e,
               res |-> Propagate(e)])
    /\ UNCHANGED <<store, now, configVars>>

\* The session store within one unit of the clock, over a backing store
\* whose statements may fail
NextFailing ==
    \/ \E s \in Session : Persist(s)
    \/ \E a \in AttrIds, r \in AuthResults : RegisterAuthResult(a, r)
    \/ \E room \in Rooms : FindByRoomId(room)
    \/ CleanDb
    \/ \E s \in Session, e \in StoreErrors : PersistFails(s, e)
    \/ \E a \in AttrIds, r \in AuthResults, e \in StoreErrors :
          RegisterAuthResultFails(a, r, e)
    \/ \E room \in Rooms, e \in StoreErrors : FindByRoomIdFails(room, e)
    \/ \E e \in StoreErrors : CleanDbFails(e)

SpecFailing == Init /\ [][NextFailing]_vars

\* The configuration bundle alone: any configuration document, resolved and
\* then used
InitConfig ==
    /\ store = {}
    /\ now = 0
    /\ last = NoCall
    /\ raw \in RawConfig
    /\ built = NoConfig
    /\ url = None

NextConfig ==
    \/ TryFromRawConfig
    \/ ExternalUrl

SpecConfig == InitConfig /\ [][NextConfig]_vars

---------------------------------------------------------------------------
(* Claims.  Every step that changes the state is a call (or a tick of the  *)
(* clock) and records itself in last, so in a step last' is the call made  *)
(* and store, store' are the table before and after it.                    *)

IsRegister(call) == call.op = "register_auth_result"
IsPersist(call) == call.op = "persist"
IsFind(call) == call.op = "find_by_room_id"
IsClean(call) == call.op = "clean_db"

\* How long a row has been inactive at time t
Idle(r, t) == t - r.last_activity

\* C1: two calls of register_auth_result with the same attr_id, one right
\* after the other, for a session that is waiting for its result: exactly one
\* of them succeeds, the other fails with NotFound, and the sessions they
\* wrote hold the value of the call that succeeded.
C1_ExactlyOneWins ==
    [][(/\ IsRegister(last) /\ IsRegister(last')
        /\ last.attr_id = last'.attr_id
        /\ last.n >= 1)
       => /\ \/ last.res = Ok /\ last'.res = NotFound
             \/ last.res = NotFound /\ last'.res = Ok
          /\ LET won == IF last.res = Ok THEN last.auth_result
                        ELSE last'.auth_result
             IN \A r \in store' :
                   r.session_id \in (last.ids \cup last'.ids)
                      => r.auth_result = won]_vars

\* C2: a stored session that has an auth_result keeps exactly that result for
\* as long as it is stored: no call changes it to another value or to absent.
C2_ResultWrittenOnce ==
    [][\A r \in store : r.auth_result # None =>
          \A r2 \in store' : r2.session_id = r.session_id
                                => r2.auth_result = r.auth_result]_vars

\* C2 witness: a second registration with another value was refused and the
\* stored result is still the first one.
C2_Witness ==
    /\ IsRegister(last) /\ last.res = NotFound
    /\ \E r \in store : /\ r.attr_id = last.attr_id
                        /\ r.auth_result # None
                        /\ r.auth_result # last.auth_result

\* C3: persist of a session whose id is not stored succeeds and adds its row;
\* persist of a session whose id is stored fails with Conflict and leaves the
\* table exactly as it was.
C3_PersistOnlyInserts ==
    [][IsPersist(last') =>
         LET id == last'.session.guest_token.id IN
         IF \E r \in store : r.session_id = id
         THEN /\ last'.res = Conflict
              /\ store' = store
         ELSE /\ last'.res = Ok
              /\ store \subseteq store'
              /\ \E r \in store' \ store :
                    /\ store' \ store = {r}
                    /\ r.session_id = id
                    /\ r.room_id = last'.session.guest_token.room_id
                    /\ r.attr_id = last'.session.attr_id
                    /\ r.auth_result = last'.session.auth_result]_vars

\* C3 witness: a second session with a stored id (and another room) was
\* refused with Conflict; the first session's row is there.
C3_Witness ==
    /\ IsPersist(last) /\ last.res = Conflict
    /\ \E r \in store :
          /\ r.session_id = last.session.guest_token.id
          /\ r.room_id # last.session.guest_token.room_id
          /\ r.attr_id # last.session.attr_id

\* C4: no two stored sessions have the same session id.
C4_UniqueSessionId ==
    \A r1, r2 \in store : r1.session_id = r2.session_id => r1 = r2

\* C4 witness: two sessions are stored and a persist of a stored id has just
\* been refused.
C4_Witness ==
    /\ Cardinality(store) = 2
    /\ IsPersist(last) /\ last.res = Conflict

\* C5: register_auth_result returns NotFound only when no stored session had
\* that attr_id with an absent auth_result, and then it changed no session's
\* auth_result; when it succeeds it updated exactly one session.
C5_NotFoundChangesNothing ==
    [][IsRegister(last') =>
         LET eligible == {r \in store : /\ r.attr_id = last'.attr_id
                                        /\ r.auth_result = None}
         IN /\ last'.res = NotFound =>
                 /\ eligible = {}
                 /\ \A r \in store : \E r2 \in store' :
                       /\ r2.session_id = r.session_id
                       /\ r2.auth_result = r.auth_result
            /\ last'.res = Ok => Cardinality(store \ store') = 1]_vars

\* C6: find_by_room_id on a table with N >= 1 sessions of the room returns
\* exactly those N sessions, resolved or not and none of another room, and
\* sets the last_activity of each to the current time; with no session of the
\* room it fails with NotFound.
C6_FindReturnsTheRoom ==
    [][IsFind(last') =>
         LET inRoom == {r \in store : r.room_id = last'.room_id} IN
         IF inRoom = {}
         THEN last'.res = NotFound
         ELSE /\ last'.res = Ok
              /\ Cardinality(last'.ret) = Cardinality(inRoom)
              /\ \A r \in inRoom : \E s \in last'.ret :
                    /\ s.guest_token.id = r.session_id
                    /\ s.guest_token.room_id = last'.room_id
                    /\ s.attr_id = r.attr_id
                    /\ s.auth_result = r.auth_result
              /\ \A r \in inRoom : \E r2 \in store' :
                    /\ r2.session_id = r.session_id
                    /\ r2.last_activity = now]_vars

\* C6 witness: a room with two sessions, one of them resolved, was read after
\* the clock had moved: both came back and both are refreshed.
C6_Witness ==
    /\ IsFind(last) /\ last.res = Ok
    /\ Cardinality(last.ret) = 2
    /\ \E s \in last.ret : s.auth_result # None
    /\ now > 0
    /\ \A r \in store : r.last_activity = now

C8_CleanRemovesHourOrMore ==
    [][IsClean(last') =>
         \A r \in store : Idle(r, now) >= Hour => r \notin store']_vars

\* Some declared key entry of the configuration does not resolve
SomeEntryFails(rc) ==
    \/ rc.decryption_privkey # "valid"
    \/ rc.signature_pubkey # "valid"
    \/ /\ rc.feature
       /\ \/ rc.auth_during_comm_config.widget_signing_privkey # "valid"
          \/ rc.auth_during_comm_config.start_auth_signing_privkey # "valid"
          \/ rc.auth_during_comm_config.guest_signature_secret # "long-secret"
          \/ rc.auth_during_comm_config.host_signature_secret # "long-secret"

\* C9: Config::external_url() is the internal URL of the configuration when
\* its external_url is unset, and the configured external_url otherwise.
C9_ExternalUrlFallsBack ==
    url # None =>
       url = IF raw.external_url = None THEN raw.internal_url
             ELSE raw.external_url

\* C9 witness: external_url was asked of a Config whose external_url is unset.
C9_Witness ==
    /\ url # None
    /\ raw.external_url = None

\* C10: when some declared key entry does not resolve, the construction ends
\* with an error value and no Config; a Config comes out only when every
\* entry resolved.
C10_AllOrNothing ==
    built # NoConfig =>
       /\ SomeEntryFails(raw) => built.res = Err
       /\ built.res = Ok => ~SomeEntryFails(raw)


\* C11: callers that persist sessions with the same session id one right
\* after the other, as the store serialises concurrent INSERTs: once one of
\* them has been answered (with success or with Conflict), every next one is
\* answered Conflict, so at most one observes success; after each of them the
\* table holds exactly one row with that id.
C11_AtMostOnePersistWins ==
    [][(/\ IsPersist(last) /\ IsPersist(last')
        /\ last.session.guest_token.id = last'.session.guest_token.id)
       => /\ last.res \in {Ok, Conflict}
          /\ last'.res = Conflict
          /\ Cardinality({r \in store' :
                r.session_id = last'.session.guest_token.id}) = 1]_vars

\* C11 witness: a persist was answered Conflict at the very time at which the
\* row with its id was written.
C11_Witness ==
    /\ IsPersist(last) /\ last.res = Conflict
    /\ \E r \in store : /\ r.session_id = last.session.guest_token.id
                        /\ r.last_activity = now
    /\ Cardinality({r \in store :
          r.session_id = last.session.guest_token.id}) = 1


\* C12: find_by_room_id on the room of a session that has just been persisted
\* returns a session with the same guest_token (id, room_id, domain,
\* redirect_url, name, instance), attr_id and purpose, the domain being what
\* it was before it was written as a string and parsed back, and with the
\* auth_result that is stored.
C12_PersistFindRoundTrip ==
    [][(/\ IsPersist(last) /\ last.res = Ok
        /\ IsFind(last')
        /\ last'.room_id = last.session.guest_token.room_id)
       => /\ last'.res = Ok
          /\ \E s \in last'.ret :
                /\ s.guest_token.id = last.session.guest_token.id
                /\ s.guest_token.room_id = last.session.guest_token.room_id
                /\ s.guest_token.domain = last.session.guest_token.domain
                /\ s.guest_token.redirect_url =
                      last.session.guest_token.redirect_url
                /\ s.guest_token.name = last.session.guest_token.name
                /\ s.guest_token.instance = last.session.guest_token.instance
                /\ s.attr_id = last.session.attr_id
                /\ s.purpose = last.session.purpose
                /\ \E r \in store' : /\ r.session_id = s.guest_token.id
                                     /\ r.auth_result = s.auth_result]_vars

\* C12 witness: a session of domain Guest, stored as "guest", came back from
\* find_by_room_id as Guest.
C12_Witness ==
    /\ IsFind(last) /\ last.res = Ok
    /\ \E s \in last.ret :
          /\ s.guest_token.domain = "Guest"
          /\ \E r \in store : /\ r.session_id = s.guest_token.id
                              /\ r.domain = "guest"

\* C13: the last_activity of a stored session never decreases: a step leaves
\* it as it is or sets it to the current time of the store, which is not
\* earlier.
C13_LastActivityMonotonic ==
    [][\A r \in store : \A r2 \in store' :
          r2.session_id = r.session_id
             => /\ r2.last_activity >= r.last_activity
                /\ \/ r2.last_activity = r.last_activity
                   \/ r2.last_activity = now']_vars

\* C13 witness: a registration refreshed one session after the clock had
\* moved, and another session still has its older last_activity.
C13_Witness ==
    /\ IsRegister(last) /\ last.res = Ok
    /\ \E r1, r2 \in store :
          /\ r1.session_id \in last.ids
          /\ r1.last_activity = now
          /\ r2.last_activity < now


\* C14: find_by_room_id on a room that has a row whose stored domain is not
\* the string of any SessionDomain fails with the parse (validation) error,
\* not with NotFound, and returns no session, whatever the other rows of the
\* room are.
C14_CorruptDomainFailsTheCall ==
    [][(/\ IsFind(last')
        /\ \E r \in store :
              /\ r.room_id = last'.room_id
              /\ r.domain \notin {DomainToString(d) : d \in SessionDomain})
       => /\ last'.res = ParseError
          /\ last'.res # NotFound
          /\ last'.ret = {}]_vars

\* C14 witness: the call failed on a room that has a corrupted row and a
\* valid one.
C14_Witness ==
    /\ IsFind(last) /\ last.res = ParseError
    /\ \E r1, r2 \in store :
          /\ r1.room_id = last.room_id /\ r1.domain = CorruptDomain
          /\ r2.room_id = last.room_id /\ r2.domain # CorruptDomain


\* The store failed the statement of the call
StoreFailed(call) == "dberr" \in DOMAIN call

\* C15: persist answers Conflict only for the unique-constraint violation
\* (the id is stored); a call whose statement the store failed otherwise
\* returns the storage error, never success, Conflict or NotFound, and no
\* further statement is run: the table is as it was.
C15_StoreErrorsPassThrough ==
    [][(IsPersist(last') \/ IsRegister(last') \/ IsFind(last')
           \/ IsClean(last'))
       => /\ (IsPersist(last') /\ last'.res = Conflict)
                => /\ ~StoreFailed(last')
                   /\ \E r \in store :
                         r.session_id = last'.session.guest_token.id
          /\ StoreFailed(last')
                => /\ last'.res = StorageError
                   /\ last'.res \notin {Ok, Conflict, NotFound}
                   /\ store' = store]_vars

\* C15 witness: a persist of a session whose id is free got the storage
\* error, with other sessions stored.
C15_Witness ==
    /\ IsPersist(last) /\ StoreFailed(last)
    /\ last.res = StorageError
    /\ store # {}
    /\ \A r \in store : r.session_id # last.session.guest_token.id


\* The row r with the last_activity of q
WithActivityOf(r, q) == [r EXCEPT !.last_activity = q.last_activity]

\* C16: find_by_room_id, whether it succeeds or fails, adds no session and
\* removes none, leaves the sessions of other rooms exactly as they are, and
\* changes of the sessions of its room at most last_activity.
C16_FindTouchesOnlyActivity ==
    [][IsFind(last') =>
         /\ Cardinality(store') = Cardinality(store)
         /\ \A r \in store :
               /\ r.room_id # last'.room_id => r \in store'
               /\ \E r2 \in store' : WithActivityOf(r2, r) = r]_vars

\* C16 witness: a room was read after the clock had moved; its session is
\* refreshed and the session of the other room has its old last_activity.
C16_Witness ==
    /\ IsFind(last) /\ last.res = Ok
    /\ \E r1, r2 \in store :
          /\ r1.room_id = last.room_id /\ r1.last_activity = now
          /\ r2.room_id # last.room_id /\ r2.last_activity < now

\* C17: register_auth_result adds no session and removes none, leaves every
\* session with another attr_id and every session that has an auth_result
\* exactly as it is (last_activity included), and changes of the others at
\* most auth_result and last_activity.
C17_RegisterTouchesOnlyPending ==
    [][IsRegister(last') =>
         /\ Cardinality(store') = Cardinality(store)
         /\ \A r \in store :
               /\ (r.attr_id # last'.attr_id \/ r.auth_result # None)
                     => r \in store'
               /\ \E r2 \in store' :
                     [WithActivityOf(r2, r) EXCEPT
                         !.auth_result = r.auth_result] = r]_vars

\* C17 witness: a registration went through after the clock had moved, and a
\* pending session with another attr_id is still pending with its old
\* last_activity.
C17_Witness ==
    /\ IsRegister(last) /\ last.res = Ok
    /\ \E r \in store :
          /\ r.attr_id # last.attr_id
          /\ r.auth_result = None
          /\ r.last_activity < now


\* C18: a session made by Session::new and persisted is stored without an
\* auth_result; register_auth_result with the attr_id of a stored pending
\* session that no other pending session shares succeeds and stores the
\* given result in it.
C18_NewSessionGetsItsResult ==
    [][/\ (/\ IsPersist(last') /\ last'.res = Ok
           /\ last'.session = New(last'.session.guest_token,
                                  last'.session.attr_id,
                                  last'.session.purpose))
          => \E r \in store' :
                /\ r.session_id = last'.session.guest_token.id
                /\ r.auth_result = None
       /\ IsRegister(last') =>
             LET pending == {r \in store : /\ r.attr_id = last'.attr_id
                                           /\ r.auth_result = None}
             IN Cardinality(pending) = 1 =>
                   /\ last'.res = Ok
                   /\ \A r \in pending : \E r2 \in store' :
                         /\ r2.session_id = r.session_id
                         /\ r2.auth_result = last'.auth_result]_vars

\* C18 witness: a pending session got the result "y" while another session
\* with the same attr_id, resolved before, is stored.
C18_Witness ==
    /\ IsRegister(last) /\ last.res = Ok /\ last.auth_result = "y"
    /\ \E r1, r2 \in store :
          /\ r1.session_id \in last.ids /\ r1.auth_result = "y"
          /\ r2.session_id \notin last.ids /\ r2.attr_id = last.attr_id

\* C19: clean_db removes no session whose last_activity was set less than
\* one hour before the sweep, whoever set it (persist, register_auth_result,
\* find_by_room_id) and however long the session has been stored.
C19_ActiveSessionsSurvive ==
    [][IsClean(last') =>
         \A r \in store : Idle(r, now) < Hour => r \in store']_vars

\* C19 witness: a sweep removed a session and kept one that was refreshed or
\* written less than an hour ago, after the clock had moved.
C19_Witness ==
    /\ IsClean(last) /\ last.n > 0
    /\ \E r \in store : Idle(r, now) < Hour /\ r.last_activity > 0

\* C20: clean_db removes the sessions idle for more than an hour, pending or
\* resolved, and no row with their id is left; right after the sweep a
\* persist with the id of a removed session succeeds, and a
\* register_auth_result with the attr_id of a removed session fails with
\* NotFound when no stored pending session has that attr_id.
C20_RemovedSessionsAreGone ==
    [][/\ IsClean(last') =>
             \A r \in store : Idle(r, now) > Hour =>
                /\ r \in last'.removed
                /\ \A r2 \in store' : r2.session_id # r.session_id
       /\ (/\ IsClean(last) /\ IsPersist(last')
           /\ \E r \in last.removed :
                 r.session_id = last'.session.guest_token.id)
          => last'.res = Ok
       /\ (/\ IsClean(last) /\ IsRegister(last')
           /\ \E r \in last.removed : r.attr_id = last'.attr_id
           /\ \A r \in store : ~(/\ r.attr_id = last'.attr_id
                                 /\ r.auth_result = None))
          => last'.res = NotFound]_vars

\* C20 witness: one sweep removed a pending session and a resolved one.
C20_Witness ==
    /\ IsClean(last)
    /\ \E r1, r2 \in last.removed :
          r1.auth_result = None /\ r2.auth_result # None

=============================================================================
